---- MODULE Spec2Model ----
(***************************************************************************)
(* A model of pyreshaper/specification.py: the create_specifier factory,   *)
(* the Specifier base class and the Slice2SeriesSpecifier class, with      *)
(* their constructors and the two-phase validate() method.                 *)
(*                                                                         *)
(* Python values are tagged records.  A string is a sequence of            *)
(* one-character strings, so slicing, concatenation and path handling are  *)
(* computed character by character.  A list is an object on a heap and a   *)
(* field holds a reference to it, so aliasing between instances is part    *)
(* of the state.                                                           *)
(***************************************************************************)
EXTENDS Integers, Sequences, FiniteSets, TLC

VARIABLES heap, objs, last

vars == <<heap, objs, last>>

(***************************************************************************)
(* Python values                                                           *)
(***************************************************************************)

\* An element of a list: a str, or a value of another type (an int).
Str(s) == [t |-> "str", s |-> s]
IntElem == [t |-> "int", s |-> <<>>]

\* An argument value as written by the caller: a str, a list literal, a
\* value of another type, or no argument at all (the keyword is omitted).
ArgStr(s) == [t |-> "str", s |-> s, l |-> <<>>]
ArgList(l) == [t |-> "list", s |-> <<>>, l |-> l]
ArgInt == [t |-> "int", s |-> <<>>, l |-> <<>>]
Absent == [t |-> "absent", s |-> <<>>, l |-> <<>>]

\* A value held by a field: a str, a reference to a list object, or a value
\* of another type.
ValStr(s) == [t |-> "str", s |-> s, ref |-> 0]
ValRef(r) == [t |-> "list", s |-> <<>>, ref |-> r]
ValInt == [t |-> "int", s |-> <<>>, ref |-> 0]
Unset == [t |-> "unset", s |-> <<>>, ref |-> 0]

\* isinstance(v, str) and isinstance(v, list)
IsStr(v) == v.t = "str"
IsList(v) == v.t = "list"

\* The elements of the list a field refers to.
Deref(v) == IF IsList(v) THEN heap[v.ref] ELSE <<>>

\* A field with its list written out: what a caller reading the field sees.
View(v) == [t |-> v.t, s |-> v.s, l |-> Deref(v)]

ViewOf(self) ==
    [specifier_type |-> self.specifier_type,
     input_file_list |-> View(self.input_file_list),
     netcdf_format |-> View(self.netcdf_format),
     output_file_prefix |-> View(self.output_file_prefix),
     output_file_suffix |-> View(self.output_file_suffix),
     time_variant_metadata |-> View(self.time_variant_metadata)]

(***************************************************************************)
(* String literals of the source                                           *)
(***************************************************************************)
S_slice_to_series == <<"s","l","i","c","e","-","t","o","-","s","e","r","i","e","s">>
S_undetermined == <<"u","n","d","e","t","e","r","m","i","n","e","d">>
S_netcdf == <<"n","e","t","c","d","f">>
S_netcdf4 == <<"n","e","t","c","d","f","4">>
S_netcdf4c == <<"n","e","t","c","d","f","4","c">>
S_tseries == <<"t","s","e","r","i","e","s",".">>
S_nc == <<".","n","c">>

\* Variant of valid_formats with the last tag left out of the list.
valid_formats_Short == <<S_netcdf, S_netcdf4>>

valid_formats == <<S_netcdf, S_netcdf4, S_netcdf4c>>

(***************************************************************************)
(* String operations of Python used by the source                          *)
(***************************************************************************)

\* Variant of Last3 that slices two characters, s[-2:].
Last3_Two(s) == SubSeq(s, IF Len(s) > 2 THEN Len(s) - 1 ELSE 1, Len(s))

\* s[-3:]
Last3(s) == SubSeq(s, IF Len(s) > 3 THEN Len(s) - 2 ELSE 1, Len(s))

\* s.startswith(p)
StartsWith(s, p) == Len(s) >= Len(p) /\ SubSeq(s, 1, Len(p)) = p

\* s.split(sep) for a one-character separator
RECURSIVE split(_, _)
split(s, sep) ==
    IF \A i \in 1..Len(s) : s[i] # sep
    THEN <<s>>
    ELSE LET k == CHOOSE i \in 1..Len(s) :
                     s[i] = sep /\ \A j \in 1..(i - 1) : s[j] # sep
         IN <<SubSeq(s, 1, k - 1)>> \o split(SubSeq(s, k + 1, Len(s)), sep)

\* sep.join(comps)
RECURSIVE join(_, _)
join(sep, comps) ==
    IF comps = <<>> THEN <<>>
    ELSE IF Len(comps) = 1 THEN comps[1]
    ELSE comps[1] \o sep \o join(sep, Tail(comps))

\* s.rfind('/') + 1: the index after the last slash, 0 when there is none
RfindSlash1(s) ==
    IF \A i \in 1..Len(s) : s[i] # "/" THEN 0
    ELSE CHOOSE i \in 1..Len(s) :
             s[i] = "/" /\ \A j \in (i + 1)..Len(s) : s[j] # "/"

\* s.rstrip('/')
RECURSIVE rstripSlash(_)
rstripSlash(s) ==
    IF s # <<>> /\ s[Len(s)] = "/" THEN rstripSlash(SubSeq(s, 1, Len(s) - 1))
    ELSE s

(***************************************************************************)
(* The file system the checks are run against, and os.path                 *)
(***************************************************************************)

\* A node of the file system is the sequence of names leading to it from
\* the root.  The tree is /, /a (a directory) and /a/aa (a regular file);
\* the working directory is /a.
Dirs == {<<>>, <<<<"a">>>>}
Files == {<<<<"a">>, <<"a", "a">>>>}
Cwd == <<"/", "a">>

Dot == <<".">>
DotDot == <<".", ".">>
Slash == <<"/">>

\* posixpath.normpath
RECURSIVE normcomps(_, _, _)
normcomps(comps, new_comps, initial_slashes) ==
    IF comps = <<>> THEN new_comps
    ELSE LET comp == Head(comps)
             rest == Tail(comps)
         IN IF comp = <<>> \/ comp = Dot
            THEN normcomps(rest, new_comps, initial_slashes)
            ELSE IF comp # DotDot
                    \/ (initial_slashes = 0 /\ new_comps = <<>>)
                    \/ (new_comps # <<>> /\ new_comps[Len(new_comps)] = DotDot)
                 THEN normcomps(rest, Append(new_comps, comp), initial_slashes)
                 ELSE IF new_comps # <<>>
                      THEN normcomps(rest, SubSeq(new_comps, 1, Len(new_comps) - 1),
                                     initial_slashes)
                      ELSE normcomps(rest, new_comps, initial_slashes)

normpath(path) ==
    IF path = <<>> THEN Dot
    ELSE LET initial_slashes ==
                 IF ~StartsWith(path, Slash) THEN 0
                 ELSE IF StartsWith(path, <<"/", "/">>)
                         /\ ~StartsWith(path, <<"/", "/", "/">>)
                      THEN 2
                      ELSE 1
             comps == normcomps(split(path, "/"), <<>>, initial_slashes)
             joined == join(Slash, comps)
             out == IF initial_slashes = 2 THEN <<"/", "/">> \o joined
                    ELSE IF initial_slashes = 1 THEN Slash \o joined
                    ELSE joined
         IN IF out = <<>> THEN Dot ELSE out

\* posixpath.join(a, b)
pathjoin(a, b) ==
    IF StartsWith(b, Slash) THEN b
    ELSE IF a = <<>> \/ a[Len(a)] = "/" THEN a \o b
    ELSE a \o Slash \o b

\* posixpath.abspath
abspath(path) ==
    IF ~StartsWith(path, Slash) THEN normpath(pathjoin(Cwd, path))
    ELSE normpath(path)

\* posixpath.dirname
dirname(p) ==
    LET i == RfindSlash1(p)
        head == SubSeq(p, 1, i)
    IN IF head # <<>> /\ head # [k \in 1..Len(head) |-> "/"]
       THEN rstripSlash(head)
       ELSE head

\* posixpath.isabs
isabs(p) == StartsWith(p, Slash)

\* The node a path names, as the kernel resolves it: every component is
\* looked up in the directory reached so far, so a component after a
\* missing name or after a regular file fails.  NoNode when there is none.
NoNode == <<<<"?">>>>

RECURSIVE walk(_, _)
walk(cur, comps) ==
    IF cur = NoNode THEN NoNode
    ELSE IF comps = <<>> THEN cur
    ELSE IF cur \notin Dirs THEN NoNode
    ELSE LET comp == Head(comps)
             nxt == IF comp = <<>> \/ comp = Dot THEN cur
                    ELSE IF comp = DotDot
                         THEN (IF cur = <<>> THEN cur
                               ELSE SubSeq(cur, 1, Len(cur) - 1))
                    ELSE IF Append(cur, comp) \in Dirs \cup Files
                         THEN Append(cur, comp)
                    ELSE NoNode
         IN walk(nxt, Tail(comps))

CwdNode == walk(<<>>, split(Cwd, "/"))

resolve(path) ==
    IF path = <<>> THEN NoNode
    ELSE LET start == IF StartsWith(path, Slash) THEN <<>> ELSE CwdNode
         IN walk(start, split(path, "/"))

\* ospath.isfile and ospath.isdir
isfile(path) == resolve(path) \in Files
isdir(path) == resolve(path) \in Dirs

(***************************************************************************)
(* Objects                                                                 *)
(***************************************************************************)

\* The two list objects created once, when the def statement of
\* Slice2SeriesSpecifier.__init__ is executed: the defaults of infiles and
\* of metadata.  They are the first two objects of the heap.
DefaultInfiles == 1
DefaultMetadata == 2

\* An object before __init__ has assigned any attribute.
NewObject ==
    [specifier_type |-> Unset,
     input_file_list |-> Unset,
     netcdf_format |-> Unset,
     output_file_prefix |-> Unset,
     output_file_suffix |-> Unset,
     time_variant_metadata |-> Unset]

\* The keyword arguments of a call in which every keyword is omitted.
NoKwargs ==
    [infiles |-> Absent, ncfmt |-> Absent, prefix |-> Absent,
     suffix |-> Absent, metadata |-> Absent]

\* The value a parameter is bound to: the default when the keyword is
\* omitted, and otherwise the caller's value, a list literal being a new
\* object at heap address `fresh`.
Bind(arg, default, fresh) ==
    IF arg.t = "absent" THEN default
    ELSE IF arg.t = "list" THEN ValRef(fresh)
    ELSE IF arg.t = "str" THEN ValStr(arg.s)
    ELSE ValInt

\* The heap after the caller's list literals have been allocated.
Alloc(h, kwargs) ==
    LET h1 == IF kwargs.infiles.t = "list" THEN Append(h, kwargs.infiles.l) ELSE h
    IN IF kwargs.metadata.t = "list" THEN Append(h1, kwargs.metadata.l) ELSE h1

(***************************************************************************)
(* Constructors                                                            *)
(***************************************************************************)

\* Specifier.__init__
Specifier_init(self, infiles, ncfmt) ==
    [self EXCEPT !.specifier_type = ValStr(S_undetermined),
                 !.input_file_list = infiles,
                 !.netcdf_format = ncfmt]

\* Slice2SeriesSpecifier.__init__: the assignments in the order of the source.
Slice2SeriesSpecifier_init(self, infiles, ncfmt, prefix, suffix, metadata) ==
    LET s1 == [self EXCEPT !.specifier_type = ValStr(S_slice_to_series)]
        s2 == Specifier_init(s1, infiles, ncfmt)
    IN [s2 EXCEPT !.output_file_prefix = prefix,
                  !.output_file_suffix = suffix,
                  !.time_variant_metadata = metadata]

\* Slice2SeriesSpecifier(**kwargs) on heap h: parameter binding, then __init__.
Slice2SeriesSpecifier(h, kwargs) ==
    LET fresh1 == Len(h) + 1
        fresh2 == IF kwargs.infiles.t = "list" THEN Len(h) + 2 ELSE Len(h) + 1
    IN Slice2SeriesSpecifier_init(
           NewObject,
           Bind(kwargs.infiles, ValRef(DefaultInfiles), fresh1),
           Bind(kwargs.ncfmt, ValStr(S_netcdf4c), 0),
           Bind(kwargs.prefix, ValStr(S_tseries), 0),
           Bind(kwargs.suffix, ValStr(S_nc), 0),
           Bind(kwargs.metadata, ValRef(DefaultMetadata), fresh2))

(***************************************************************************)
(* validate()                                                              *)
(***************************************************************************)

\* The outcome of a method: the exception raised ("None" when it returns)
\* with the source line of its raise statement, the object as the method
\* leaves it, and the paths the method has asked the file system about.
Return(self, stats) == [exc |-> "None", line |-> 0, self |-> self, stats |-> stats]
Raise(exc, line, self, stats) == [exc |-> exc, line |-> line, self |-> self, stats |-> stats]

\* The index of the first element of l that is not a str, 0 when all are.
FirstNonStr(l) ==
    IF \A i \in 1..Len(l) : IsStr(l[i]) THEN 0
    ELSE CHOOSE i \in 1..Len(l) : ~IsStr(l[i]) /\ \A j \in 1..(i - 1) : IsStr(l[j])

\* The index of the first element of l that names no regular file, 0 when
\* all do.
FirstNonFile(l) ==
    IF \A i \in 1..Len(l) : isfile(l[i].s) THEN 0
    ELSE CHOOSE i \in 1..Len(l) : ~isfile(l[i].s) /\ \A j \in 1..(i - 1) : isfile(l[j].s)

\* Specifier.validate_types
Specifier_validate_types(self) ==
    IF ~IsList(self.input_file_list)
    THEN Raise("TypeError", 97, self, <<>>)
    ELSE IF FirstNonStr(Deref(self.input_file_list)) # 0
    THEN Raise("TypeError", 103, self, <<>>)
    ELSE IF ~IsStr(self.netcdf_format)
    THEN Raise("TypeError", 108, self, <<>>)
    ELSE Return(self, <<>>)

\* Specifier.validate_values
Specifier_validate_values(self) ==
    LET l == Deref(self.input_file_list)
        bad == FirstNonFile(l)
        asked == [i \in 1..(IF bad = 0 THEN Len(l) ELSE bad) |-> l[i].s]
    IN IF Len(l) = 0
       THEN Raise("ValueError", 125, self, <<>>)
       ELSE IF bad # 0
       THEN Raise("ValueError", 132, self, asked)
       ELSE IF \A i \in 1..Len(valid_formats) : valid_formats[i] # self.netcdf_format.s
       THEN Raise("ValueError", 140, self, asked)
       ELSE Return(self, asked)

\* Variant of Slice2SeriesSpecifier.validate_types that runs its own checks
\* before the call of the base class method.
Slice2SeriesSpecifier_validate_types_DerivedFirst(self) ==
    IF ~IsStr(self.output_file_prefix)
    THEN Raise("TypeError", 215, self, <<>>)
    ELSE IF ~IsStr(self.output_file_suffix)
    THEN Raise("TypeError", 220, self, <<>>)
    ELSE IF ~IsList(self.time_variant_metadata)
    THEN Raise("TypeError", 225, self, <<>>)
    ELSE IF FirstNonStr(Deref(self.time_variant_metadata)) # 0
    THEN Raise("TypeError", 232, self, <<>>)
    ELSE Specifier_validate_types(self)

\* Slice2SeriesSpecifier.validate_types
Slice2SeriesSpecifier_validate_types(self) ==
    LET base == Specifier_validate_types(self)
    IN IF base.exc # "None" THEN base
       ELSE IF ~IsStr(self.output_file_prefix)
       THEN Raise("TypeError", 215, self, <<>>)
       ELSE IF ~IsStr(self.output_file_suffix)
       THEN Raise("TypeError", 220, self, <<>>)
       ELSE IF ~IsList(self.time_variant_metadata)
       THEN Raise("TypeError", 225, self, <<>>)
       ELSE IF FirstNonStr(Deref(self.time_variant_metadata)) # 0
       THEN Raise("TypeError", 232, self, <<>>)
       ELSE Return(self, <<>>)

\* Variant of Slice2SeriesSpecifier.validate_values without the assignment
\* of the absolute prefix to the field.
Slice2SeriesSpecifier_validate_values_NoRewrite(self) ==
    LET base == Specifier_validate_values(self)
        abs_output_prefix == abspath(self.output_file_prefix.s)
        abs_output_dir == dirname(abs_output_prefix)
        stats == Append(base.stats, abs_output_dir)
        s2 == IF Last3(self.output_file_suffix.s) # S_nc
              THEN [self EXCEPT !.output_file_suffix = ValStr(@.s \o S_nc)]
              ELSE self
    IN IF base.exc # "None" THEN base
       ELSE IF ~isdir(abs_output_dir)
       THEN Raise("ValueError", 259, self, stats)
       ELSE Return(s2, stats)

\* Variant of Slice2SeriesSpecifier.validate_values that raises on a suffix
\* not ending in .nc, like the sibling checks, instead of extending it.
Slice2SeriesSpecifier_validate_values_SuffixRaises(self) ==
    LET base == Specifier_validate_values(self)
        abs_output_prefix == abspath(self.output_file_prefix.s)
        abs_output_dir == dirname(abs_output_prefix)
        stats == Append(base.stats, abs_output_dir)
        s1 == [self EXCEPT !.output_file_prefix = ValStr(abs_output_prefix)]
    IN IF base.exc # "None" THEN base
       ELSE IF ~isdir(abs_output_dir)
       THEN Raise("ValueError", 259, self, stats)
       ELSE IF Last3(s1.output_file_suffix.s) # S_nc
       THEN Raise("ValueError", 264, s1, stats)
       ELSE Return(s1, stats)

\* Variant of Slice2SeriesSpecifier.validate_values that assigns the
\* absolute prefix to the field before the directory check.
Slice2SeriesSpecifier_validate_values_RewriteFirst(self) ==
    LET base == Specifier_validate_values(self)
        abs_output_prefix == abspath(self.output_file_prefix.s)
        abs_output_dir == dirname(abs_output_prefix)
        stats == Append(base.stats, abs_output_dir)
        s1 == [self EXCEPT !.output_file_prefix = ValStr(abs_output_prefix)]
        s2 == IF Last3(s1.output_file_suffix.s) # S_nc
              THEN [s1 EXCEPT !.output_file_suffix = ValStr(@.s \o S_nc)]
              ELSE s1
    IN IF base.exc # "None" THEN base
       ELSE IF ~isdir(abs_output_dir)
       THEN Raise("ValueError", 259, s1, stats)
       ELSE Return(s2, stats)

\* Slice2SeriesSpecifier.validate_values
Slice2SeriesSpecifier_validate_values(self) ==
    LET base == Specifier_validate_values(self)
        abs_output_prefix == abspath(self.output_file_prefix.s)
        abs_output_dir == dirname(abs_output_prefix)
        stats == Append(base.stats, abs_output_dir)
        s1 == [self EXCEPT !.output_file_prefix = ValStr(abs_output_prefix)]
        s2 == IF Last3(s1.output_file_suffix.s) # S_nc
              THEN [s1 EXCEPT !.output_file_suffix = ValStr(@.s \o S_nc)]
              ELSE s1
    IN IF base.exc # "None" THEN base
       ELSE IF ~isdir(abs_output_dir)
       THEN Raise("ValueError", 259, self, stats)
       ELSE Return(s2, stats)

\* Variant of Specifier.validate that validates the values before the types.
validate_ValuesFirst(self) ==
    LET values == Slice2SeriesSpecifier_validate_values(self)
    IN IF values.exc # "None" THEN values
       ELSE LET types == Slice2SeriesSpecifier_validate_types(values.self)
            IN [types EXCEPT !.stats = values.stats]

\* Specifier.validate
validate(self) ==
    LET types == Slice2SeriesSpecifier_validate_types(self)
    IN IF types.exc # "None" THEN types
       ELSE Slice2SeriesSpecifier_validate_values(types.self)

(***************************************************************************)
(* Bounds and inputs                                                       *)
(***************************************************************************)

\* The longest output prefix and output suffix tried exhaustively.
MaxPathLen == 3
MaxSuffixLen == 3

\* The number of instances alive together, and the longest list, where
\* instances are constructed side by side.
MaxObjs == 2
MaxListLen == 2

\* Every string of at most n characters drawn from chars.
StringsUpTo(chars, n) == UNION {[1..k -> chars] : k \in 0..n}

F_aa == <<"a", "a">>
F_abs_aa == <<"/", "a", "/", "a", "a">>
F_a == <<"a">>
F_abs_a == <<"/", "a">>
S_bogus == <<"b", "o", "g", "u", "s">>
S_unknown == <<"u", "n", "k", "n", "o", "w", "n">>

\* The mode tags: the recognized one, an unrecognized one, an int.
Tags == {ArgStr(S_slice_to_series), ArgStr(S_unknown), ArgInt}

\* infiles: omitted, empty, existing files, a missing file after an existing
\* one, a directory, a non-string element, not a list.
InfilesArgs ==
    {Absent,
     ArgList(<<>>),
     ArgList(<<Str(F_aa)>>),
     ArgList(<<Str(F_abs_aa), Str(F_aa)>>),
     ArgList(<<Str(F_aa), Str(F_a)>>),
     ArgList(<<Str(F_abs_a)>>),
     ArgList(<<Str(F_aa), IntElem>>),
     ArgInt}

NcfmtArgs == {Absent, ArgStr(S_netcdf), ArgStr(S_netcdf4), ArgStr(S_bogus), ArgInt}

\* prefix: omitted, empty, relative below a missing directory, relative with
\* dots, below a regular file, with two leading slashes, with a trailing
\* slash, not a string.
PrefixArgs ==
    {Absent,
     ArgStr(<<>>),
     ArgStr(<<"a", "/", "p">>),
     ArgStr(<<".", ".", "/", "a", "/", ".", "/", "p">>),
     ArgStr(<<"/", "a", "/", "a", "a", "/", "p">>),
     ArgStr(<<"/", "/", "a", "/", "p">>),
     ArgStr(<<"p", "/">>),
     ArgInt}

SuffixArgs ==
    {Absent, ArgStr(<<>>), ArgStr(<<"n", "c">>), ArgStr(<<"o", ".", "n", "c">>), ArgInt}

MetadataArgs ==
    {Absent, ArgList(<<Str(F_a)>>), ArgList(<<Str(F_a), IntElem>>), ArgInt}

\* The keyword arguments of the main specification: every combination.
Kwargs ==
    [infiles : InfilesArgs, ncfmt : NcfmtArgs, prefix : PrefixArgs,
     suffix : SuffixArgs, metadata : MetadataArgs]

\* The keyword arguments of the normalization specification: every prefix
\* and every suffix up to the bounds, two longer suffixes ending in .nc,
\* and one existing input file.
KwargsNorm ==
    [infiles : {ArgList(<<Str(F_aa)>>)},
     ncfmt : {Absent},
     prefix : {ArgStr(s) : s \in StringsUpTo({"/", ".", "a"}, MaxPathLen)},
     suffix : {ArgStr(s) : s \in StringsUpTo({".", "n", "c"}, MaxSuffixLen)
                                 \cup {<<"n", ".", "n", "c">>,
                                       <<".", "n", "c", ".", "n", "c">>}},
     metadata : {Absent}]

\* The keyword arguments of the sharing specification: each list omitted or
\* given as a new empty list.
KwargsShared ==
    [infiles : {Absent, ArgList(<<>>)},
     ncfmt : {Absent},
     prefix : {Absent},
     suffix : {Absent},
     metadata : {Absent, ArgList(<<>>)}]

\* What a caller appends to a list.
AppendElems == {Str(F_aa), IntElem}

(***************************************************************************)
(* State machine                                                           *)
(***************************************************************************)

\* The record of the last call: the operation, the instance it was applied
\* to or returned (0 when none), its arguments, the instance as the caller
\* saw it before the call, the outcome, and the operation, instance and
\* exception of the call before it.
NoPrior == [op |-> "none", inst |-> 0, exc |-> "None"]

Call(op, inst, tag, kwargs, pre, exc, line, stats, prior) ==
    [op |-> op, inst |-> inst, tag |-> tag, kwargs |-> kwargs, pre |-> pre,
     exc |-> exc, line |-> line, stats |-> stats,
     prior |-> [op |-> prior.op, inst |-> prior.inst, exc |-> prior.exc]]

Init ==
    /\ heap = <<<<>>, <<>>>>
    /\ objs = <<>>
    /\ last = Call("init", 0, Absent, NoKwargs, ViewOf(NewObject), "None", 0, <<>>,
                   NoPrior)

\* Variant of create_specifier without the isinstance check of the tag: a tag
\* that is no string is compared with the mode names and matches none.
create_specifier_NoTypeCheck(spec_type, kwargs) ==
    LET tag == IF spec_type.t = "absent" THEN ArgStr(S_slice_to_series) ELSE spec_type
    IN IF IsStr(tag) /\ tag.s = S_slice_to_series
       THEN /\ heap' = Alloc(heap, kwargs)
            /\ objs' = Append(objs, Slice2SeriesSpecifier(heap, kwargs))
            /\ last' = Call("create", Len(objs) + 1, spec_type, kwargs,
                            ViewOf(NewObject), "None", 0, <<>>, last)
       ELSE /\ last' = Call("create", 0, spec_type, kwargs, ViewOf(NewObject),
                            "ValueError", 40, <<>>, last)
            /\ UNCHANGED <<heap, objs>>

\* create_specifier(spec_type, **kwargs)
create_specifier(spec_type, kwargs) ==
    LET tag == IF spec_type.t = "absent" THEN ArgStr(S_slice_to_series) ELSE spec_type
    IN IF ~IsStr(tag)
       THEN /\ last' = Call("create", 0, spec_type, kwargs, ViewOf(NewObject),
                            "TypeError", 33, <<>>, last)
            /\ UNCHANGED <<heap, objs>>
       ELSE IF tag.s = S_slice_to_series
       THEN /\ heap' = Alloc(heap, kwargs)
            /\ objs' = Append(objs, Slice2SeriesSpecifier(heap, kwargs))
            /\ last' = Call("create", Len(objs) + 1, spec_type, kwargs,
                            ViewOf(NewObject), "None", 0, <<>>, last)
       ELSE /\ last' = Call("create", 0, spec_type, kwargs, ViewOf(NewObject),
                            "ValueError", 40, <<>>, last)
            /\ UNCHANGED <<heap, objs>>

\* objs[i].validate()
Validate(i) ==
    LET r == validate(objs[i])
    IN /\ objs' = [objs EXCEPT ![i] = r.self]
       /\ last' = Call("validate", i, Absent, NoKwargs, ViewOf(objs[i]),
                       r.exc, r.line, r.stats, last)
       /\ UNCHANGED heap

\* objs[i].input_file_list.append(e) or objs[i].time_variant_metadata.append(e),
\* done by the caller that owns the instance.
ListAppend(i, field, e) ==
    LET v == IF field = "input_file_list" THEN objs[i].input_file_list
             ELSE objs[i].time_variant_metadata
    IN /\ IsList(v)
       /\ Len(heap[v.ref]) < MaxListLen
       /\ heap' = [heap EXCEPT ![v.ref] = Append(@, e)]
       /\ last' = Call("append", i, Absent, NoKwargs, ViewOf(objs[i]), "None", 0, <<>>,
                       last)
       /\ UNCHANGED objs

\* One call of the factory, with any tag and any combination of arguments;
\* the specifier it returns is validated any number of times.
Create == \E spec_type \in Tags, kwargs \in Kwargs :
              last.op = "init" /\ create_specifier(spec_type, kwargs)
CallValidate == \E i \in 1..Len(objs) : Validate(i)

Next == Create \/ CallValidate

Spec == Init /\ [][Next]_vars

\* One specifier with its prefix and suffix drawn exhaustively.
CreateNorm == \E kwargs \in KwargsNorm :
                  last.op = "init" /\ create_specifier(ArgStr(S_slice_to_series), kwargs)

NextNorm == CreateNorm \/ CallValidate

SpecNorm == Init /\ [][NextNorm]_vars

\* Several specifiers side by side, their lists appended to by the caller.
CreateShared == \E kwargs \in KwargsShared :
                    Len(objs) < MaxObjs /\ create_specifier(Absent, kwargs)
CallAppend == \E i \in 1..Len(objs), field \in {"input_file_list", "time_variant_metadata"},
                 e \in AppendElems : ListAppend(i, field, e)

NextShared == CreateShared \/ CallAppend

SpecShared == Init /\ [][NextShared]_vars

(***************************************************************************)
(* Vocabulary of the properties, stated on what the caller sees            *)
(***************************************************************************)

\* The three valid format tags.
FormatTags == {S_netcdf, S_netcdf4, S_netcdf4c}

\* s ends in the three characters .nc
EndsWithNc(s) ==
    /\ Len(s) >= 3
    /\ s[Len(s) - 2] = "."
    /\ s[Len(s) - 1] = "n"
    /\ s[Len(s)] = "c"

\* v is a list whose elements are all strings.
ListOfStr(v) == v.t = "list" /\ \A i \in 1..Len(v.l) : v.l[i].t = "str"

\* The violations of the base class checks and of the derived class checks
\* by an instance seen as v, by phase.
BaseTypeViolation(v) ==
    \/ ~ListOfStr(v.input_file_list)
    \/ v.netcdf_format.t # "str"

BaseValueViolation(v) ==
    \/ v.input_file_list.t = "list" /\ v.input_file_list.l = <<>>
    \/ \E i \in 1..Len(v.input_file_list.l) :
           /\ v.input_file_list.l[i].t = "str"
           /\ ~isfile(v.input_file_list.l[i].s)
    \/ v.netcdf_format.t = "str" /\ v.netcdf_format.s \notin FormatTags

DerivedTypeViolation(v) ==
    \/ v.output_file_prefix.t # "str"
    \/ v.output_file_suffix.t # "str"
    \/ ~ListOfStr(v.time_variant_metadata)

DerivedValueViolation(v) ==
    /\ v.output_file_prefix.t = "str"
    /\ ~isdir(dirname(abspath(v.output_file_prefix.s)))

TypeViolation(v) == BaseTypeViolation(v) \/ DerivedTypeViolation(v)
ValueViolation(v) == BaseValueViolation(v) \/ DerivedValueViolation(v)

\* The valid inputs: no check of either phase is violated.
ValidInputs(v) == ~TypeViolation(v) /\ ~ValueViolation(v)

BaseLines == {97, 103, 108, 125, 132, 140}
DerivedTypeLines == {215, 220, 225, 232}

\* The last call was validate(), and it returned / raised.
Validated == last.op = "validate"
ValidatedOk == last.op = "validate" /\ last.exc = "None"
ValidateFailed == last.op = "validate" /\ last.exc # "None"

\* The instance of the last call as the caller sees it now.
Now == ViewOf(objs[last.inst])

(***************************************************************************)
(* Properties                                                              *)
(***************************************************************************)

\* C1: every constructed Slice2SeriesSpecifier has specifier_type equal to
\* "slice-to-series", after construction and after any validate() calls.
C1_SpecifierType ==
    \A i \in 1..Len(objs) : objs[i].specifier_type = ValStr(S_slice_to_series)

\* C2: no list is shared between instances: an append to a list of one
\* instance leaves the lists of every other instance as they were, and an
\* instance constructed without infiles or metadata starts with that list
\* empty.
C2_NoSharedLists ==
    [][/\ \A j \in 1..Len(objs) :
              (last'.op = "append" /\ last'.inst # j)
                  => ViewOf(objs[j])' = ViewOf(objs[j])
       /\ (last'.op = "create" /\ last'.inst # 0)
              => /\ last'.kwargs.infiles = Absent
                     => (Deref(objs[last.inst].input_file_list))' = <<>>
                 /\ last'.kwargs.metadata = Absent
                     => (Deref(objs[last.inst].time_variant_metadata))' = <<>>]_vars

\* C3: when any field has the wrong type, validate() raises a type error,
\* has asked the file system nothing and has changed no field, whatever
\* value violations are present.
C3_TypeErrorFirst ==
    (Validated /\ TypeViolation(last.pre))
        => /\ last.exc = "TypeError"
           /\ last.stats = <<>>
           /\ Now = last.pre

C3_Witness ==
    /\ Validated
    /\ TypeViolation(last.pre)
    /\ BaseValueViolation(last.pre)
    /\ DerivedValueViolation(last.pre)
    /\ last.exc = "TypeError"

\* C4: when validate() returns without raising, the input file list is a
\* non-empty list of strings naming regular files, the format is one of the
\* three tags, the prefix is absolute and its parent directory exists, the
\* suffix ends in .nc and the metadata is a list of strings.
C4_PostValidation ==
    ValidatedOk
        => /\ ListOfStr(Now.input_file_list)
           /\ Len(Now.input_file_list.l) >= 1
           /\ \A i \in 1..Len(Now.input_file_list.l) : isfile(Now.input_file_list.l[i].s)
           /\ Now.netcdf_format.t = "str"
           /\ Now.netcdf_format.s \in FormatTags
           /\ Now.output_file_prefix.t = "str"
           /\ isabs(Now.output_file_prefix.s)
           /\ isdir(dirname(Now.output_file_prefix.s))
           /\ Now.output_file_suffix.t = "str"
           /\ EndsWithNc(Now.output_file_suffix.s)
           /\ ListOfStr(Now.time_variant_metadata)

C4_Witness ==
    /\ ValidatedOk
    /\ ~isabs(last.pre.output_file_prefix.s)
    /\ ~EndsWithNc(last.pre.output_file_suffix.s)
    /\ Len(Now.input_file_list.l) = 2

\* C5: on valid inputs, with any string as suffix and any list of strings as
\* metadata, validate() returns without raising.
C5_ValidInputsPass ==
    (Validated /\ ValidInputs(last.pre)) => last.exc = "None"

C5_Witness ==
    /\ Validated
    /\ ValidInputs(last.pre)
    /\ last.pre.output_file_suffix.s = <<>>
    /\ last.pre.time_variant_metadata.l = <<>>
    /\ last.pre.netcdf_format.s = S_netcdf4c
    /\ last.exc = "None"

\* C6: a validate() call that follows a validate() call on the same
\* instance that returned without raising raises nothing and changes no
\* field.
C6_Idempotent ==
    (/\ Validated
     /\ last.prior.op = "validate"
     /\ last.prior.inst = last.inst
     /\ last.prior.exc = "None")
        => /\ last.exc = "None"
           /\ Now = last.pre

C6_Witness ==
    /\ ValidatedOk
    /\ last.prior.op = "validate"
    /\ last.prior.inst = last.inst
    /\ last.prior.exc = "None"
    /\ Now.output_file_suffix.s = <<"c", ".", "n", "c">>
    /\ Now.output_file_prefix.s = <<"/", "a", "/", ".", ".", "a">>

\* C7: after a validate() call that returns, the suffix is the suffix before
\* the call if that ends in .nc, and the suffix before the call followed by
\* .nc otherwise; on inputs that are valid, a suffix not ending in .nc does
\* not make validate() raise.
C7_SuffixNormalized ==
    /\ ValidatedOk
           => Now.output_file_suffix =
                  [last.pre.output_file_suffix EXCEPT
                      !.s = IF EndsWithNc(@) THEN @ ELSE @ \o <<".", "n", "c">>]
    /\ (Validated /\ ValidInputs(last.pre)
            /\ ~EndsWithNc(last.pre.output_file_suffix.s))
           => last.exc = "None"

C7_Witness ==
    /\ ValidatedOk
    /\ last.pre.output_file_suffix.s = <<"n">>
    /\ Now.output_file_suffix.s = <<"n", ".", "n", "c">>

\* C8: create_specifier raises a type error for a tag that is no string and
\* a value error for a string other than "slice-to-series", constructing no
\* instance in either case; for "slice-to-series" it returns an instance
\* whose fields are the keyword arguments, or the defaults where omitted.
FieldFrom(arg, default) == IF arg = Absent THEN default ELSE arg

C8_Factory ==
    last.op = "create"
        => /\ last.tag.t # "str"
                  => last.exc = "TypeError" /\ last.inst = 0 /\ objs = <<>>
           /\ (last.tag.t = "str" /\ last.tag.s # S_slice_to_series)
                  => last.exc = "ValueError" /\ last.inst = 0 /\ objs = <<>>
           /\ (last.tag.t = "str" /\ last.tag.s = S_slice_to_series)
                  => /\ last.exc = "None"
                     /\ last.inst = 1
                     /\ Len(objs) = 1
                     /\ Now.input_file_list = FieldFrom(last.kwargs.infiles, ArgList(<<>>))
                     /\ Now.netcdf_format = FieldFrom(last.kwargs.ncfmt, ArgStr(S_netcdf4c))
                     /\ Now.output_file_prefix = FieldFrom(last.kwargs.prefix, ArgStr(S_tseries))
                     /\ Now.output_file_suffix = FieldFrom(last.kwargs.suffix, ArgStr(S_nc))
                     /\ Now.time_variant_metadata = FieldFrom(last.kwargs.metadata, ArgList(<<>>))

C8_Witness ==
    /\ last.op = "create"
    /\ last.tag = ArgInt
    /\ last.kwargs.infiles.t = "list"
    /\ last.exc = "TypeError"
    /\ objs = <<>>

\* C9 as stated: a validate() call that fails in the method that rewrites
\* the prefix, Slice2SeriesSpecifier.validate_values, leaves the prefix
\* rewritten to its absolute form.
C9_PrefixRewrittenOnFailure ==
    (ValidateFailed /\ last.line = 259)
        => Now.output_file_prefix.s = abspath(last.pre.output_file_prefix.s)

\* C9 as amended: a validate() call that fails leaves every field as it was
\* before the call; the prefix is rewritten only once no check is left that
\* can fail.
C9_FailureChangesNothing ==
    ValidateFailed => Now = last.pre

C9_Witness ==
    /\ ValidateFailed
    /\ last.line = 259
    /\ ~isabs(last.pre.output_file_prefix.s)
    /\ ~EndsWithNc(last.pre.output_file_suffix.s)
    /\ Now = last.pre

\* C10 as stated: when an instance violates a base class check and a
\* derived class check, of whichever phases, validate() raises the error of
\* the base class check.
C10_BaseFirst ==
    (/\ Validated
     /\ BaseTypeViolation(last.pre) \/ BaseValueViolation(last.pre)
     /\ DerivedTypeViolation(last.pre) \/ DerivedValueViolation(last.pre))
        => last.line \in BaseLines

\* C10 as amended: under the same violations validate() raises the error of
\* the base class check, unless a derived type check is violated and no
\* base type check is: then it raises the type error of the derived check.
C10_BaseFirstWithinPhase ==
    (/\ Validated
     /\ BaseTypeViolation(last.pre) \/ BaseValueViolation(last.pre)
     /\ DerivedTypeViolation(last.pre) \/ DerivedValueViolation(last.pre))
        => IF BaseTypeViolation(last.pre) \/ ~DerivedTypeViolation(last.pre)
           THEN last.line \in BaseLines
           ELSE last.line \in DerivedTypeLines /\ last.exc = "TypeError"

C10_Witness ==
    /\ Validated
    /\ BaseTypeViolation(last.pre)
    /\ DerivedTypeViolation(last.pre)
    /\ DerivedValueViolation(last.pre)
    /\ last.line \in BaseLines
    /\ last.exc = "TypeError"

====
